---- MODULE Spec2Model ----
(***************************************************************************)
(* Session Manager of the HRMS front end (hr_frontend/src/contexts/        *)
(* AuthContext.jsx).  The file holds two variants of AuthProvider:         *)
(*   "inline" (lines 32-258): the response interceptor refreshes inline    *)
(*            and logs out on failure; storage is mirrored by an effect;   *)
(*   "helper" (lines 285-475): refreshAccessToken() helper, interceptor    *)
(*            that only propagates, checkAuth with its own rescue.         *)
(* Tokens are numbered in the order the backend issues them; 0 is null or   *)
(* undefined (the code only tests truthiness), Undef is what JavaScript     *)
(* makes of undefined where a string is required ("undefined").             *)
(* Every axios call is an entry of net: "sent" while the backend has not   *)
(* answered, then "ok" / "e401" / "err" until the client's continuation    *)
(* (interceptor, then the awaiting code) consumes the answer.              *)
(* Further sections model what is built on the session: the route guards   *)
(* of App.jsx, hasPermission and its consumer UserManagement.jsx, the      *)
(* NotificationProvider, and the service worker of the static build; each  *)
(* has its own specification, with the session manager at rest.            *)
(***************************************************************************)
EXTENDS Integers, FiniteSets, Sequences, TLC

VARIABLES
  variant,       \* which AuthProvider is mounted
  user,          \* useState user (0 = null)
  loading,       \* useState loading
  token,         \* useState token
  refreshToken,  \* useState refreshToken
  lsToken,       \* localStorage 'token' (0 = key absent)
  lsRefresh,     \* localStorage 'refresh_token'
  header,        \* axios.defaults.headers.common.Authorization (0 = absent)
  effPending,    \* a render changed the effect's deps; the effect has not run yet
  navPending,    \* window.location.href was assigned; the page has not reloaded yet
  issued,        \* backend: number of the last credential it issued
  pc,            \* per task: position in its async function
  kind,          \* per task: the operation it runs, named by its endpoint
  lvl,           \* per task: refresh POSTs stacked above the task's own call
  phase,         \* per task: "retry" iff the call in flight has config._retry
  net,           \* per task: the axios call in flight and its answer
  rc,            \* per task: POSTs to /auth/token/refresh issued in this run
  bc,            \* per task: requests to the task's own endpoint issued in this run
  res,           \* per task: how the last run settled
  storedRefreshToken, \* checkAuth's local const storedRefreshToken
  initFirst,     \* answer to the first request of checkAuth
  initFails,     \* failed answers received by checkAuth's chain
  \* UserManagement.jsx below a user value of the context
  ctxUser,       \* the user object of the context, with its permissions
  umMounted,     \* a UserManagement instance is mounted
  umPend,        \* calls of the mounted instance that are in flight
  umStale,       \* calls in flight whose instance has been unmounted
  umUsersCalls,  \* requests to /users the mounted instance has issued
  asked,         \* the user and the argument of the last call of hasPermission
  answer,        \* what that call returned
  \* static/service-worker.js and the origin it fetches from
  swCache,       \* the cache 'hrms-cache-v1': per url the version stored (0 = no entry)
  srvVer,        \* version of the content the origin serves now
  swPend,        \* the fetch the worker has passed on to the network
  swResp,        \* the response the worker gave to the last fetch event
  \* NotificationContext.jsx and the backend's notifications of the user
  notifications, \* useState notifications
  unreadCount,   \* useState unreadCount
  npMarks,       \* per notification id: PUTs .../read in flight
  npFetch,       \* a GET /notifications is in flight
  srvNotifs      \* backend: per id "none", "unread" or "read"

authVars == <<variant, user, loading, token, refreshToken, lsToken, lsRefresh,
              header, effPending, navPending, issued, pc, kind, lvl, phase, net,
              rc, bc, res, storedRefreshToken, initFirst, initFails>>

umVars == <<ctxUser, umMounted, umPend, umStale, umUsersCalls, asked, answer>>

swVars == <<swCache, srvVer, swPend, swResp>>

npVars == <<notifications, unreadCount, npMarks, npFetch, srvNotifs>>

\* the state of the pages, which the session manager never touches
pageVars == <<umVars, swVars, npVars>>

vars == <<authVars, pageVars>>

\* ------------------------------------------------------------------ bounds
MaxTok == 3       \* credentials the backend issues in one behaviour
MaxNest == 2      \* nesting depth of refresh calls that is told apart
MaxCount == 3     \* the call counters saturate here
MaxPerms == 2     \* length of the permissions array of a user
MaxVer == 2       \* versions of its content the origin serves in one behaviour
MaxId == 2        \* notifications the backend creates in one behaviour
MaxMarks == 2     \* PUTs .../read in flight for one notification

\* checkAuth and two slots, each for one operation a consumer of the context
\* has called and not yet got back: login, logout, updateProfile or any
\* protected request of a dashboard component
Ops == {"a", "b"}
Tasks == {"init"} \cup Ops
ReqKinds == {"protected", "updateProfile"}

\* register, forgotPassword and resetPassword: calls of the public pages
PublicKind == "public"

\* localStorage.setItem(k, undefined) stores the string "undefined", and
\* `Bearer ${undefined}` is the header "Bearer undefined"
Undef == -1

\* the value a React state holds for a field v of a response body
Falsy(v) == IF v = Undef THEN 0 ELSE v

\* the answers a call can settle with: 2xx, 401, any other failure, and for
\* the refresh endpoint a 2xx whose body lacks access_token
Answers == {"ok", "e401", "err", "bad"}

Min(a, b) == IF a < b THEN a ELSE b
Inc(c) == Min(c + 1, MaxCount)

\* no call in flight; a call just sent with Authorization: Bearer c.  id tells
\* a call from the one the same task made before it (a new config object)
NoNet == [st |-> "none", id |-> 0, cred |-> 0, acc |-> 0, ref |-> 0]
Sent(n, c) == [st |-> "sent", id |-> 1 - n.id, cred |-> c, acc |-> 0, ref |-> 0]

\* url of the task's own axios call
BaseEp(t) == kind[t]

\* url of the call of task t that is in flight
Ep(t) == IF lvl[t] >= 1 THEN "refresh" ELSE BaseEp(t)

\* the React state, the storage and the axios defaults as one value
Mem == [user |-> user, loading |-> loading, token |-> token,
        refreshToken |-> refreshToken, lsToken |-> lsToken,
        lsRefresh |-> lsRefresh, header |-> header,
        effPending |-> effPending, navPending |-> navPending]

setToken(S, v) ==
  [S EXCEPT !.token = v, !.effPending = S.effPending \/ v # S.token]

setRefreshToken(S, v) ==
  [S EXCEPT !.refreshToken = v,
            !.effPending = S.effPending \/ (variant = "inline" /\ v # S.refreshToken)]

setUser(S, v) == [S EXCEPT !.user = v]
setLoading(S, v) == [S EXCEPT !.loading = v]

handleLogout(S) ==
  LET S1 == setUser(setRefreshToken(setToken(S, 0), 0), 0)
      S2 == [S1 EXCEPT !.lsToken = 0, !.lsRefresh = 0]
  IN IF variant = "inline"
       THEN [S2 EXCEPT !.navPending = TRUE]
       ELSE [S2 EXCEPT !.header = 0]

\* the task-local part of the state of task t
Local(t) == [pc |-> pc[t], kind |-> kind[t], lvl |-> lvl[t], phase |-> phase[t],
             net |-> net[t], rc |-> rc[t], bc |-> bc[t], res |-> res[t]]

\* the async function of a task returns
Finish(T, r) ==
  [T EXCEPT !.pc = "done", !.lvl = 0, !.phase = "orig", !.net = NoNet, !.res = r]

\* refreshSuccess that takes refresh_token from every answer, present or not
refreshSuccess_Rotate(S, acc, ref) ==
  LET S1 == [setToken(S, Falsy(acc)) EXCEPT
               !.header = acc,
               !.lsToken = IF variant = "helper" THEN acc ELSE S.lsToken,
               !.lsRefresh = IF variant = "helper" THEN ref ELSE S.lsRefresh]
  IN setRefreshToken(S1, ref)

\* refreshSuccess without the write of the new access token to storage
refreshSuccess_NoStore(S, acc, ref) ==
  LET S1 == [setToken(S, acc) EXCEPT !.header = acc]
  IN IF ref # 0
       THEN setRefreshToken([S1 EXCEPT !.lsRefresh = ref], ref)
       ELSE S1

\* a successful answer of the refresh endpoint is stored
refreshSuccess(S, acc, ref) ==
  IF variant = "helper"
    THEN LET S1 == [setToken([S EXCEPT !.lsToken = acc], Falsy(acc)) EXCEPT !.header = acc]
         IN IF ref # 0
              THEN setRefreshToken([S1 EXCEPT !.lsRefresh = ref], ref)
              ELSE S1
    ELSE LET S1 == setToken(S, Falsy(acc))
             S2 == IF ref # 0 THEN setRefreshToken(S1, ref) ELSE S1
         IN [S2 EXCEPT !.header = acc]

\* TaskResolve whose checkAuth leaves loading as it is
TaskResolve_KeepLoading(t, S, T, n) ==
  CASE T.kind = "profile" ->
         [S |-> setUser(S, 1), T |-> Finish(T, "ok")]
    [] T.kind = "login" ->
         LET S0 == IF variant = "helper"
                     THEN [S EXCEPT !.lsToken = n.acc, !.lsRefresh = n.ref]
                     ELSE S
         IN [S |-> setUser(setRefreshToken(setToken(S0, n.acc), n.ref), 1),
             T |-> Finish(T, "ok")]
    [] T.kind = "logout" ->
         [S |-> handleLogout(S), T |-> Finish(T, "ok")]
    [] OTHER ->
         [S |-> IF T.kind = "updateProfile" THEN setUser(S, 2) ELSE S,
          T |-> Finish(T, "ok")]

\* the task's own axios call resolved with the answer n
TaskResolve(t, S, T, n) ==
  CASE T.kind = "profile" ->
         [S |-> setLoading(setUser(S, 1), FALSE), T |-> Finish(T, "ok")]
    [] T.kind = "login" ->
         LET S0 == IF variant = "helper"
                     THEN [S EXCEPT !.lsToken = n.acc, !.lsRefresh = n.ref]
                     ELSE S
         IN [S |-> setUser(setRefreshToken(setToken(S0, n.acc), n.ref), 1),
             T |-> Finish(T, "ok")]
    [] T.kind = "logout" ->
         [S |-> handleLogout(S), T |-> Finish(T, "ok")]
    [] OTHER ->
         [S |-> IF T.kind = "updateProfile" THEN setUser(S, 2) ELSE S,
          T |-> Finish(T, "ok")]

\* checkAuth of the helper variant got newToken back from refreshAccessToken()
RescueReturn(S, T, newToken) ==
  IF newToken # 0
    THEN [S |-> S,
          T |-> [T EXCEPT !.pc = "recall", !.lvl = 0, !.phase = "orig",
                          !.net = Sent(T.net, newToken), !.bc = Inc(T.bc)]]
    ELSE [S |-> setLoading(handleLogout(S), FALSE), T |-> Finish(T, "fail")]

\* TaskReject in which every failed operation ends in handleLogout()
TaskReject_ForcedLogout(t, S, T, e) ==
  [S |-> IF T.kind = "profile" THEN setLoading(handleLogout(S), FALSE) ELSE handleLogout(S),
   T |-> Finish(T, "fail")]

\* the task's own axios call rejected with error e
TaskReject(t, S, T, e) ==
  CASE T.kind = "profile" /\ variant = "inline" ->
         [S |-> setLoading(S, FALSE), T |-> Finish(T, "fail")]
    [] T.kind = "profile" /\ variant = "helper" /\ T.pc = "call" ->
         IF e = "e401" /\ storedRefreshToken # 0
           THEN IF S.lsRefresh = 0
                  THEN RescueReturn(S, T, 0)
                  ELSE [S |-> S,
                        T |-> [T EXCEPT !.pc = "rescue", !.lvl = 1, !.phase = "orig",
                                        !.net = Sent(T.net, S.lsRefresh), !.rc = Inc(T.rc)]]
           ELSE [S |-> setLoading(handleLogout(S), FALSE), T |-> Finish(T, "fail")]
    [] T.kind = "profile" /\ variant = "helper" /\ T.pc # "call" ->
         [S |-> setLoading(handleLogout(S), FALSE), T |-> Finish(T, "fail")]
    [] T.kind = "logout" ->
         [S |-> handleLogout(S), T |-> Finish(T, "fail")]
    [] OTHER ->
         [S |-> S, T |-> Finish(T, "fail")]

\* the call in flight at nesting level T.lvl rejected with e, after its own
\* interceptor: every enclosing refresh gives up and the task's call rejects
Rejected(t, S, T, e) ==
  IF T.lvl = 0
    THEN TaskReject(t, S, T, e)
    ELSE IF variant = "helper"
           THEN IF T.pc = "rescue"
                  THEN RescueReturn(S, T, 0)
                  ELSE TaskReject(t, S, [T EXCEPT !.lvl = 0], "e401")
           ELSE TaskReject(t, handleLogout(S), [T EXCEPT !.lvl = 0], e)

\* InterceptError without the exemption of /auth/login
InterceptError_LoginToo(t, S, T, e) ==
  IF e = "e401" /\ T.phase = "orig"
    THEN IF S.lsRefresh = 0
           THEN IF variant = "helper"
                  THEN Rejected(t, S, T, "e401")
                  ELSE Rejected(t, handleLogout(S), T, "err")
           ELSE [S |-> S,
                 T |-> [T EXCEPT !.lvl = Min(T.lvl + 1, MaxNest), !.phase = "orig",
                                 !.net = Sent(T.net, S.lsRefresh), !.rc = Inc(T.rc)]]
    ELSE Rejected(t, S, T, e)

\* InterceptError that posts to the refresh endpoint without looking whether
\* a refresh token is stored
InterceptError_AlwaysPost(t, S, T, e) ==
  IF e = "e401" /\ T.phase = "orig" /\ ~(T.lvl = 0 /\ BaseEp(t) = "login")
    THEN [S |-> S,
          T |-> [T EXCEPT !.lvl = Min(T.lvl + 1, MaxNest), !.phase = "orig",
                          !.net = Sent(T.net, S.lsRefresh), !.rc = Inc(T.rc)]]
    ELSE Rejected(t, S, T, e)

\* the response interceptor's error handler for the call in flight
InterceptError(t, S, T, e) ==
  IF e = "e401" /\ T.phase = "orig" /\ ~(T.lvl = 0 /\ BaseEp(t) = "login")
    THEN IF S.lsRefresh = 0
           THEN IF variant = "helper"
                  THEN Rejected(t, S, T, "e401")
                  ELSE Rejected(t, handleLogout(S), T, "err")
           ELSE [S |-> S,
                 T |-> [T EXCEPT !.lvl = Min(T.lvl + 1, MaxNest), !.phase = "orig",
                                 !.net = Sent(T.net, S.lsRefresh), !.rc = Inc(T.rc)]]
    ELSE Rejected(t, S, T, e)

\* a refresh POST resolved: the tokens are stored and the caller goes on
RefreshResolved(t, S, T, n) ==
  LET S1 == refreshSuccess(S, n.acc, n.ref)
  IN IF variant = "helper" /\ n.acc = Undef
       THEN Rejected(t, S1, T, "e401")
     ELSE IF T.pc = "rescue" /\ T.lvl = 1
       THEN RescueReturn(S1, T, n.acc)
       ELSE [S |-> S1,
             T |-> [T EXCEPT !.lvl = T.lvl - 1, !.phase = "retry",
                             !.net = Sent(T.net, n.acc),
                             !.rc = IF T.lvl - 1 >= 1 THEN Inc(T.rc) ELSE T.rc,
                             !.bc = IF T.lvl - 1 = 0 THEN Inc(T.bc) ELSE T.bc]]

\* everything the client runs when the answer to task t's call arrives
OnResponse(t, o) ==
  LET n == net[t]
      T == Local(t)
  IN CASE o = "ok" ->
            IF T.lvl >= 1
              THEN RefreshResolved(t, Mem, T, n)
              ELSE TaskResolve(t, Mem, T, n)
       [] o = "bad" -> RefreshResolved(t, Mem, T, [n EXCEPT !.acc = Undef, !.ref = 0])
       [] OTHER -> InterceptError(t, Mem, T, o)

\* assignment of a computed client state
SetMem(S) ==
  /\ user' = S.user
  /\ loading' = S.loading
  /\ token' = S.token
  /\ refreshToken' = S.refreshToken
  /\ lsToken' = S.lsToken
  /\ lsRefresh' = S.lsRefresh
  /\ header' = S.header
  /\ effPending' = S.effPending
  /\ navPending' = S.navPending

SetLocal(t, T) ==
  /\ pc' = [pc EXCEPT ![t] = T.pc]
  /\ kind' = [kind EXCEPT ![t] = T.kind]
  /\ lvl' = [lvl EXCEPT ![t] = T.lvl]
  /\ phase' = [phase EXCEPT ![t] = T.phase]
  /\ net' = [net EXCEPT ![t] = T.net]
  /\ rc' = [rc EXCEPT ![t] = T.rc]
  /\ bc' = [bc EXCEPT ![t] = T.bc]
  /\ res' = [res EXCEPT ![t] = T.res]

\* a run of a task starts: its counters restart
Begin(T, k) ==
  [T EXCEPT !.pc = "call", !.kind = k, !.lvl = 0, !.phase = "orig",
            !.net = NoNet, !.rc = 0, !.bc = 0, !.res = "none"]

\* ----------------------------------------------------------------- actions
Idle == [t \in Tasks |-> "idle"]

AuthInit ==
  /\ variant \in {"inline", "helper"}
  /\ lsToken \in {0, 1}
  /\ lsRefresh \in {0, 1}
  /\ token = lsToken
  /\ refreshToken = lsRefresh
  /\ header = lsToken
  /\ user = 0
  /\ loading = TRUE
  /\ effPending = FALSE
  /\ navPending = FALSE
  /\ issued = 1
  /\ pc = Idle
  /\ kind = [t \in Tasks |-> "none"]
  /\ lvl = [t \in Tasks |-> 0]
  /\ phase = [t \in Tasks |-> "orig"]
  /\ net = [t \in Tasks |-> NoNet]
  /\ rc = [t \in Tasks |-> 0]
  /\ bc = [t \in Tasks |-> 0]
  /\ res = [t \in Tasks |-> "none"]
  /\ storedRefreshToken = 0
  /\ initFirst = "none"
  /\ initFails = 0

\* ------------------------------------------------- user values, permissions
PermNames == {"user_read", "user_write", "user_delete"}

\* the arrays user.permissions can be
PermLists == UNION {[1..n -> PermNames] : n \in 0..MaxPerms}

\* user of the context: null, an object without permissions, or an object
\* whose permissions is an array of names
NullUser == [null |-> TRUE, hasPerms |-> FALSE, permissions |-> <<>>]

UserValues ==
  {NullUser}
  \cup {[null |-> FALSE, hasPerms |-> FALSE, permissions |-> <<>>]}
  \cup {[null |-> FALSE, hasPerms |-> TRUE, permissions |-> q] : q \in PermLists}

\* Array.prototype.includes
includes(arr, x) == \E i \in 1..Len(arr) : arr[i] = x

\* hasPermission that looks at the first entry of the array only
hasPermission_First(p) ==
  /\ ~ctxUser.null
  /\ ctxUser.hasPerms
  /\ Len(ctxUser.permissions) >= 1
  /\ ctxUser.permissions[1] = p

\* user?.permissions?.includes(p) || false
hasPermission(p) ==
  IF ctxUser.null THEN FALSE
  ELSE IF ~ctxUser.hasPerms THEN FALSE
  ELSE includes(ctxUser.permissions, p)

\* calls of UserManagement that go to the /users endpoint
UsersCalls == {"fetchUsers", "create", "update", "delete"}

\* no UserManagement is mounted and hasPermission has not been called
UmStill ==
  /\ ctxUser = NullUser
  /\ umMounted = FALSE
  /\ umPend = {}
  /\ umStale = {}
  /\ umUsersCalls = 0
  /\ asked = [user |-> NullUser, p |-> "none"]
  /\ answer = FALSE

\* ------------------------------------------------------- service worker data
\* a url is the sequence of its path separators and the names between them
Origin == <<"https:", "/", "/", "hrms.example">>

urlsToCache ==
  << <<"/">>,
     <<"/", "index.html">>,
     <<"/", "manifest.json">>,
     <<"/", "icons", "/", "icon-192x192.png">>,
     <<"/", "icons", "/", "icon-512x512.png">>,
     <<"/", "icons", "/", "icon-maskable-192x192.png">>,
     <<"/", "icons", "/", "icon-maskable-512x512.png">> >>

\* the urls of the fetch events: the page, its entry document, a call of the
\* REST api, and a font of another origin
SwUrls ==
  { Origin \o <<"/">>,
    Origin \o <<"/", "index.html">>,
    Origin \o <<"/", "api", "/", "auth", "/", "profile">>,
    <<"https:", "/", "/", "fonts.example", "/", "inter.woff2">> }

\* String.prototype.includes
urlIncludes(s, sub) ==
  \E i \in 0..(Len(s) - Len(sub)) : SubSeq(s, i + 1, i + Len(sub)) = sub

\* u is one of the assets of urlsToCache, resolved against the origin
IsListedAsset(u) ==
  \E i \in 1..Len(urlsToCache) : u = Origin \o urlsToCache[i]

\* response.type of a response to a request for u made by the page
ResponseType(u) ==
  IF Len(u) >= Len(Origin) /\ SubSeq(u, 1, Len(Origin)) = Origin
    THEN "basic" ELSE "cors"

NoFetch == [method |-> "none", url |-> <<>>]
NoResp == [url |-> <<>>, from |-> "none", status |-> 0, ver |-> 0]

\* the worker is not installed
SwStill ==
  /\ swCache = [u \in SwUrls |-> 0]
  /\ srvVer = 1
  /\ swPend = NoFetch
  /\ swResp = NoResp

\* --------------------------------------------------------- notification data
Ids == 1..MaxId

\* entries of list that are not read
Unread(list) == {i \in 1..Len(list) : ~list[i].is_read}

\* NotificationProvider just mounted, the backend has no notification
NpStill ==
  /\ notifications = <<>>
  /\ unreadCount = 0
  /\ npMarks = [i \in Ids |-> 0]
  /\ npFetch = FALSE
  /\ srvNotifs = [i \in Ids |-> "none"]

Init == AuthInit /\ UmStill /\ SwStill /\ NpStill
\* ProtectedRoute that does not wait for loading
ProtectedRoute_NoLoading == IF user # 0 THEN "children" ELSE "Navigate"

\* what the route guards of App.jsx render
ProtectedRoute ==
  IF loading THEN "LoadingScreen"
  ELSE IF user # 0 THEN "children" ELSE "Navigate"

PublicRoute ==
  IF loading THEN "LoadingScreen"
  ELSE IF user # 0 THEN "Navigate" ELSE "children"

\* a consumer can call the context once the routes have rendered; the two
\* slots are interchangeable, b is used while a is taken
CanStart(t) ==
  /\ ~loading
  /\ ~navPending
  /\ pc = [pc EXCEPT !["init"] = "idle", ![t] = "idle"]
  /\ t = "b" => pc["a"] # "idle"

\* CheckAuthStart that stops early only when neither token is stored
CheckAuthStart_AnyToken ==
  /\ pc["init"] = "idle"
  /\ loading
  /\ storedRefreshToken' = IF variant = "helper" THEN lsRefresh ELSE 0
  /\ IF (IF variant = "helper" THEN lsToken ELSE token) = 0 /\ lsRefresh = 0
       THEN /\ SetMem(setLoading(Mem, FALSE))
            /\ SetLocal("init", Finish(Begin(Local("init"), "profile"), "ok"))
       ELSE /\ SetMem(Mem)
            /\ SetLocal("init", [Begin(Local("init"), "profile") EXCEPT
                                   !.net = Sent(NoNet, header), !.bc = 1])
  /\ UNCHANGED <<variant, issued, initFirst, initFails>>
  /\ UNCHANGED pageVars

\* the mount effect: checkAuth() up to its first await
CheckAuthStart ==
  /\ pc["init"] = "idle"
  /\ loading
  /\ storedRefreshToken' = IF variant = "helper" THEN lsRefresh ELSE 0
  /\ IF (IF variant = "helper" THEN lsToken ELSE token) = 0
       THEN /\ SetMem(setLoading(Mem, FALSE))
            /\ SetLocal("init", Finish(Begin(Local("init"), "profile"), "ok"))
       ELSE /\ SetMem(Mem)
            /\ SetLocal("init", [Begin(Local("init"), "profile") EXCEPT
                                   !.net = Sent(NoNet, header), !.bc = 1])
  /\ UNCHANGED <<variant, issued, initFirst, initFails>>
  /\ UNCHANGED pageVars

\* login(credentials) up to the await of the POST /auth/login; the login
\* page is rendered by PublicRoute, that is while user is null
Login(t) ==
  /\ CanStart(t)
  /\ PublicRoute = "children"
  /\ SetLocal(t, [Begin(Local(t), "login") EXCEPT !.net = Sent(NoNet, header), !.bc = 1])
  /\ UNCHANGED <<variant, user, loading, token, refreshToken, lsToken, lsRefresh,
                 header, effPending, navPending, issued, storedRefreshToken,
                 initFirst, initFails>>
  /\ UNCHANGED pageVars

\* Logout that posts to /auth/logout whether or not a token is held
Logout_AlwaysPost(t) ==
  /\ CanStart(t)
  /\ SetMem(Mem)
  /\ SetLocal(t, [Begin(Local(t), "logout") EXCEPT !.net = Sent(NoNet, header), !.bc = 1])
  /\ UNCHANGED <<variant, issued, storedRefreshToken, initFirst, initFails>>
  /\ UNCHANGED pageVars

\* logout() up to the await of the POST /auth/logout, or to its end when
\* there is no token
Logout(t) ==
  /\ CanStart(t)
  /\ IF token # 0
       THEN /\ SetMem(Mem)
            /\ SetLocal(t, [Begin(Local(t), "logout") EXCEPT
                              !.net = Sent(NoNet, header), !.bc = 1])
       ELSE /\ SetMem(handleLogout(Mem))
            /\ SetLocal(t, Finish(Begin(Local(t), "logout"), "ok"))
  /\ UNCHANGED <<variant, issued, storedRefreshToken, initFirst, initFails>>
  /\ UNCHANGED pageVars

\* a dashboard component (rendered by ProtectedRoute, that is while user is
\* set) issues a protected request, or calls updateProfile(d)
Request(t, k) ==
  /\ CanStart(t)
  /\ ProtectedRoute = "children"
  /\ SetLocal(t, [Begin(Local(t), k) EXCEPT !.net = Sent(NoNet, header), !.bc = 1])
  /\ UNCHANGED <<variant, user, loading, token, refreshToken, lsToken, lsRefresh,
                 header, effPending, navPending, issued, storedRefreshToken,
                 initFirst, initFails>>
  /\ UNCHANGED pageVars

\* a public page (rendered by PublicRoute, that is while user is null) calls
\* register(d), forgotPassword(e) or resetPassword(t, p)
Public(t) ==
  /\ CanStart(t)
  /\ PublicRoute = "children"
  /\ SetLocal(t, [Begin(Local(t), PublicKind) EXCEPT !.net = Sent(NoNet, header), !.bc = 1])
  /\ UNCHANGED <<variant, user, loading, token, refreshToken, lsToken, lsRefresh,
                 header, effPending, navPending, issued, storedRefreshToken,
                 initFirst, initFails>>
  /\ UNCHANGED pageVars

\* the backend grants the refresh or the login of task t and issues the next
\* credentials; rot: the refresh answer carries a new refresh token
Backend(t, rot) ==
  /\ net[t].st = "sent"
  /\ issued < MaxTok
  /\ \/ Ep(t) = "refresh" /\ phase[t] = "orig" /\ net[t].cred > 0
     \/ Ep(t) = "login" /\ rot
  /\ issued' = issued + 1
  /\ net' = [net EXCEPT ![t] = [net[t] EXCEPT !.st = "ok", !.acc = issued + 1,
                                              !.ref = IF rot THEN issued + 1 ELSE 0]]
  /\ UNCHANGED <<variant, user, loading, token, refreshToken, lsToken, lsRefresh,
                 header, effPending, navPending, pc, kind, lvl, phase, rc, bc, res,
                 storedRefreshToken, initFirst, initFails>>
  /\ UNCHANGED pageVars

\* outcomes with which the call of task t can settle at the client: the
\* answer the backend issued, 2xx of an endpoint that issues nothing (the
\* request carried a credential, or the endpoint is public), 2xx of the
\* refresh endpoint without
\* access_token, 401, or any other failure
Outcomes(t) ==
  (IF net[t].st = "ok" THEN {"ok"} ELSE {})
  \cup (IF /\ net[t].st = "sent" /\ Ep(t) \notin {"refresh", "login"}
             /\ (net[t].cred > 0 \/ Ep(t) = PublicKind)
          THEN {"ok"} ELSE {})
  \cup (IF net[t].st = "sent" /\ Ep(t) = "refresh" /\ phase[t] = "orig" /\ net[t].cred > 0
          THEN {"bad"} ELSE {})
  \cup (IF net[t].st = "sent" THEN {"e401"} ELSE {})
  \cup (IF net[t].st \in {"sent", "ok"} THEN {"err"} ELSE {})

\* the answer o reaches the client: interceptor, then the awaiting code, up
\* to the next await. React commits the state a handler has set and runs the
\* effect before the next answer is handled; calls that components start
\* during that render (Login, Logout, Request) still precede the effect
Deliver(t, o) ==
  /\ ~effPending
  /\ o \in Outcomes(t)
  /\ LET R == OnResponse(t, o)
     IN /\ SetMem(R.S)
        /\ SetLocal(t, R.T)
  /\ initFirst' = IF t = "init" /\ initFirst = "none" THEN o ELSE initFirst
  /\ initFails' = IF t = "init" /\ o # "ok"
                    THEN Min(initFails + 1, 2) ELSE initFails
  /\ UNCHANGED <<variant, issued, storedRefreshToken>>
  /\ UNCHANGED pageVars

\* the caller of a settled operation resumes and drops its result; for
\* checkAuth this is the render of the routes that follows setLoading(false)
Return(t) ==
  /\ pc[t] = "done"
  /\ SetLocal(t, [Begin(Local(t), "none") EXCEPT !.pc = "idle"])
  /\ storedRefreshToken' = IF t = "init" THEN 0 ELSE storedRefreshToken
  /\ initFirst' = IF t = "init" THEN "none" ELSE initFirst
  /\ initFails' = IF t = "init" THEN 0 ELSE initFails
  /\ UNCHANGED <<variant, user, loading, token, refreshToken, lsToken, lsRefresh,
                 header, effPending, navPending, issued>>
  /\ UNCHANGED pageVars

\* the effect on [token, refreshToken] (inline) / on [token] (helper)
Effect ==
  /\ effPending
  /\ effPending' = FALSE
  /\ IF variant = "inline"
       THEN /\ header' = token
            /\ lsToken' = token
            /\ lsRefresh' = refreshToken
       ELSE /\ header' = IF token # 0 THEN token ELSE header
            /\ UNCHANGED <<lsToken, lsRefresh>>
  /\ UNCHANGED <<variant, user, loading, token, refreshToken, navPending, issued,
                 pc, kind, lvl, phase, net, rc, bc, res, storedRefreshToken,
                 initFirst, initFails>>
  /\ UNCHANGED pageVars

\* window.location.href = '/login' takes effect: the document is replaced,
\* AuthProvider mounts again from storage and pending calls are dropped
PageReload ==
  /\ navPending
  /\ navPending' = FALSE
  /\ token' = lsToken
  /\ refreshToken' = lsRefresh
  /\ header' = lsToken
  /\ user' = 0
  /\ loading' = TRUE
  /\ effPending' = FALSE
  /\ pc' = Idle
  /\ kind' = [t \in Tasks |-> "none"]
  /\ lvl' = [t \in Tasks |-> 0]
  /\ phase' = [t \in Tasks |-> "orig"]
  /\ net' = [t \in Tasks |-> NoNet]
  /\ rc' = [t \in Tasks |-> 0]
  /\ bc' = [t \in Tasks |-> 0]
  /\ res' = [t \in Tasks |-> "none"]
  /\ storedRefreshToken' = 0
  /\ initFirst' = "none"
  /\ initFails' = 0
  /\ UNCHANGED <<variant, lsToken, lsRefresh, issued>>
  /\ UNCHANGED pageVars

Next ==
  \/ CheckAuthStart
  \/ \E t \in Ops : Login(t)
  \/ \E t \in Ops : Logout(t)
  \/ \E t \in Ops, k \in ReqKinds : Request(t, k)
  \/ \E t \in Tasks, rot \in BOOLEAN : Backend(t, rot)
  \/ \E t \in Tasks, o \in Answers : Deliver(t, o)
  \/ \E t \in Tasks : Return(t)
  \/ Effect
  \/ PageReload

Spec == Init /\ [][Next]_vars

\* every call settles, effects and the
\* reload run; nothing obliges the user to start an operation
FairSpec ==
  /\ Spec
  /\ WF_vars(CheckAuthStart)
  /\ \A t \in Tasks : WF_vars(\E o \in Answers : Deliver(t, o))
  /\ \A t \in Tasks : WF_vars(Return(t))
  /\ WF_vars(Effect)
  /\ WF_vars(PageReload)

\* the context used by one caller at a time: an operation is started only
\* when the one before it has returned
SeqTasks == {"init", "a"}

SeqNext ==
  \/ CheckAuthStart
  \/ Login("a")
  \/ Logout("a")
  \/ \E k \in ReqKinds : Request("a", k)
  \/ Public("a")
  \/ \E t \in SeqTasks, rot \in BOOLEAN : Backend(t, rot)
  \/ \E t \in SeqTasks, o \in Answers : Deliver(t, o)
  \/ \E t \in SeqTasks : Return(t)
  \/ Effect
  \/ PageReload

SeqSpec == Init /\ [][SeqNext]_vars

\* ----------------------------------------------------------- UserManagement
\* the session manager at rest: a guest, nothing stored, nothing started
AuthStill ==
  /\ AuthInit
  /\ variant = "helper"
  /\ lsToken = 0
  /\ lsRefresh = 0

\* what UserManagement returns from its render
UserManagementRender ==
  IF ~hasPermission("user_read") THEN "insufficient_permissions" ELSE "list"

\* the permission that shows the control of handler c
ControlPermission(c) == IF c = "delete" THEN "user_delete" ELSE "user_write"

\* the calls left in flight when call c of the set pend settles
AfterSettle(pend, c, ok) ==
  (pend \ {c}) \cup (IF ok /\ c \in {"create", "update", "delete"}
                       THEN {"fetchUsers"} ELSE {})

\* the provider sets another user while no UserManagement is mounted
SetCtxUser(u) ==
  /\ ~umMounted
  /\ u # ctxUser
  /\ ctxUser' = u
  /\ UNCHANGED <<umMounted, umPend, umStale, umUsersCalls, asked, answer>>
  /\ UNCHANGED <<authVars, swVars, npVars>>

\* a consumer of the context calls hasPermission(p)
HasPermissionCall(p) ==
  /\ asked' = [user |-> ctxUser, p |-> p]
  /\ answer' = hasPermission(p)
  /\ UNCHANGED <<ctxUser, umMounted, umPend, umStale, umUsersCalls>>
  /\ UNCHANGED <<authVars, swVars, npVars>>

\* UmMount whose effect fetches the users whatever the permissions
UmMount_AlwaysFetch ==
  /\ ~umMounted
  /\ umMounted' = TRUE
  /\ umPend' = {"fetchUsers", "fetchRoles"}
  /\ umUsersCalls' = 1
  /\ UNCHANGED <<ctxUser, umStale, asked, answer>>
  /\ UNCHANGED <<authVars, swVars, npVars>>

\* UserManagement mounts: first render and the mount effect
UmMount ==
  /\ ~umMounted
  /\ umMounted' = TRUE
  /\ IF hasPermission("user_read")
       THEN umPend' = {"fetchUsers", "fetchRoles"} /\ umUsersCalls' = 1
       ELSE umPend' = {"fetchRoles"} /\ umUsersCalls' = 0
  /\ UNCHANGED <<ctxUser, umStale, asked, answer>>
  /\ UNCHANGED <<authVars, swVars, npVars>>

\* the user submits the create or edit dialog, or confirms a deletion; the
\* controls exist only in the list view and only with their permission
UmHandler(c) ==
  /\ umMounted
  /\ UserManagementRender = "list"
  /\ hasPermission(ControlPermission(c))
  /\ c \notin umPend
  /\ umPend' = umPend \cup {c}
  /\ umUsersCalls' = Inc(umUsersCalls)
  /\ UNCHANGED <<ctxUser, umMounted, umStale, asked, answer>>
  /\ UNCHANGED <<authVars, swVars, npVars>>

\* a call of the mounted instance settles; a handler whose call succeeded
\* goes on to fetchUsers(currentPage)
UmSettle(c, ok) ==
  /\ c \in umPend
  /\ umPend' = AfterSettle(umPend, c, ok)
  /\ umUsersCalls' = IF "fetchUsers" \in AfterSettle(umPend, c, ok) \ umPend
                       THEN Inc(umUsersCalls) ELSE umUsersCalls
  /\ UNCHANGED <<ctxUser, umMounted, umStale, asked, answer>>
  /\ UNCHANGED <<authVars, swVars, npVars>>

\* the dashboard shows another tab: the instance is unmounted, its calls
\* stay in flight
UmUnmount ==
  /\ umMounted
  /\ umMounted' = FALSE
  /\ umStale' = umStale \cup umPend
  /\ umPend' = {}
  /\ umUsersCalls' = 0
  /\ UNCHANGED <<ctxUser, asked, answer>>
  /\ UNCHANGED <<authVars, swVars, npVars>>

\* Forced Logout while mounted: user is null and ProtectedRoute drops the
\* dashboard in the same render
UmLogout ==
  /\ umMounted
  /\ ~ctxUser.null
  /\ ctxUser' = NullUser
  /\ umMounted' = FALSE
  /\ umStale' = umStale \cup umPend
  /\ umPend' = {}
  /\ umUsersCalls' = 0
  /\ UNCHANGED <<asked, answer>>
  /\ UNCHANGED <<authVars, swVars, npVars>>

\* a call of an unmounted instance settles
UmStaleSettle(c, ok) ==
  /\ c \in umStale
  /\ umStale' = AfterSettle(umStale, c, ok)
  /\ UNCHANGED <<ctxUser, umMounted, umPend, umUsersCalls, asked, answer>>
  /\ UNCHANGED <<authVars, swVars, npVars>>

UmInit ==
  /\ AuthStill
  /\ ctxUser \in UserValues
  /\ umMounted = FALSE
  /\ umPend = {}
  /\ umStale = {}
  /\ umUsersCalls = 0
  /\ asked = [user |-> NullUser, p |-> "none"]
  /\ answer = FALSE
  /\ SwStill
  /\ NpStill

UmNext ==
  \/ \E u \in UserValues : SetCtxUser(u)
  \/ UmMount
  \/ \E c \in {"create", "update", "delete"} : UmHandler(c)
  \/ \E c \in UsersCalls \cup {"fetchRoles"}, ok \in BOOLEAN : UmSettle(c, ok)
  \/ UmUnmount
  \/ UmLogout
  \/ \E c \in UsersCalls \cup {"fetchRoles"}, ok \in BOOLEAN : UmStaleSettle(c, ok)

UmSpec == UmInit /\ [][UmNext]_vars

\* hasPermission alone: the provider sets users and consumers ask
PermNext ==
  \/ \E u \in UserValues : SetCtxUser(u)
  \/ \E p \in PermNames \cup {"role_read"} : HasPermissionCall(p)

PermSpec == UmInit /\ [][PermNext]_vars

\* ----------------------------------------------------------- service worker
\* the worker has been installed: '/' is in the cache from then on
SwInstalled == swCache[Origin \o <<"/">>] # 0

\* the test of line 57 on the url of the request
IsStaticAsset(u) ==
  \E i \in 1..Len(urlsToCache) : urlIncludes(u, urlsToCache[i])

\* install: cache.addAll(urlsToCache)
SwInstall ==
  /\ ~SwInstalled
  /\ swCache' = [u \in SwUrls |-> IF IsListedAsset(u) THEN srvVer ELSE 0]
  /\ UNCHANGED <<srvVer, swPend, swResp>>
  /\ UNCHANGED <<authVars, umVars, npVars>>

\* the origin serves new content
SwDeploy ==
  /\ srvVer < MaxVer
  /\ srvVer' = srvVer + 1
  /\ UNCHANGED <<swCache, swPend, swResp>>
  /\ UNCHANGED <<authVars, umVars, npVars>>

\* fetch event for a request of the page: the cache entry if there is one,
\* otherwise the request goes to the network
FetchEvent(m, u) ==
  /\ SwInstalled
  /\ swPend = NoFetch
  /\ IF m = "GET" /\ swCache[u] # 0
       THEN /\ swResp' = [url |-> u, from |-> "cache", status |-> 200,
                          ver |-> swCache[u]]
            /\ UNCHANGED swPend
       ELSE /\ swPend' = [method |-> m, url |-> u]
            /\ UNCHANGED swResp
  /\ UNCHANGED <<swCache, srvVer>>
  /\ UNCHANGED <<authVars, umVars, npVars>>

\* the network answers the request passed on: the response goes to the page
\* and, if it passes the tests of lines 46 and 57, into the cache
NetworkAnswer(status) ==
  /\ swPend # NoFetch
  /\ swResp' = [url |-> swPend.url, from |-> "network", status |-> status,
                ver |-> srvVer]
  /\ swCache' = IF /\ status = 200
                   /\ ResponseType(swPend.url) = "basic"
                   /\ swPend.method = "GET"
                   /\ IsStaticAsset(swPend.url)
                  THEN [swCache EXCEPT ![swPend.url] = srvVer]
                  ELSE swCache
  /\ swPend' = NoFetch
  /\ UNCHANGED srvVer
  /\ UNCHANGED <<authVars, umVars, npVars>>

SwInit == AuthStill /\ UmStill /\ SwStill /\ NpStill

SwNext ==
  \/ SwInstall
  \/ SwDeploy
  \/ \E m \in {"GET", "POST"}, u \in SwUrls : FetchEvent(m, u)
  \/ \E status \in {200, 401} : NetworkAnswer(status)

SwSpec == SwInit /\ [][SwNext]_vars

\* ----------------------------------------------------- NotificationProvider
\* prev.map(n => n.id === id ? {...n, is_read: true} : n)
MapRead(list, id) ==
  [i \in 1..Len(list) |->
     IF list[i].id = id THEN [list[i] EXCEPT !.is_read = TRUE] ELSE list[i]]

\* prev.map(n => ({...n, is_read: true}))
MapAllRead(list) ==
  [i \in 1..Len(list) |-> [list[i] EXCEPT !.is_read = TRUE]]

\* ids of the unread entries of list
UnreadIds(list) == {list[i].id : i \in Unread(list)}

\* the body of GET /notifications: the user's notifications, newest first
RECURSIVE SrvList(_)
SrvList(n) ==
  IF n = 0 THEN <<>>
  ELSE IF srvNotifs[n] = "none" THEN SrvList(n - 1)
  ELSE <<[id |-> n, is_read |-> srvNotifs[n] = "read"]>> \o SrvList(n - 1)

\* the backend creates notification id and pushes new_notification, whose
\* handler prepends it and counts it
NewNotification(id) ==
  /\ srvNotifs[id] = "none"
  /\ \A j \in Ids : j < id => srvNotifs[j] # "none"
  /\ srvNotifs' = [srvNotifs EXCEPT ![id] = "unread"]
  /\ notifications' = <<[id |-> id, is_read |-> FALSE]>> \o notifications
  /\ unreadCount' = unreadCount + 1
  /\ UNCHANGED <<npMarks, npFetch>>
  /\ UNCHANGED <<authVars, umVars, swVars>>

\* fetchNotifications() up to the await of its GET
FetchStart ==
  /\ ~npFetch
  /\ npFetch' = TRUE
  /\ UNCHANGED <<notifications, unreadCount, npMarks, srvNotifs>>
  /\ UNCHANGED <<authVars, umVars, swVars>>

\* the GET /notifications settles
FetchDone(ok) ==
  /\ npFetch
  /\ npFetch' = FALSE
  /\ IF ok
       THEN /\ notifications' = SrvList(MaxId)
            /\ unreadCount' = Cardinality(Unread(SrvList(MaxId)))
       ELSE UNCHANGED <<notifications, unreadCount>>
  /\ UNCHANGED <<npMarks, srvNotifs>>
  /\ UNCHANGED <<authVars, umVars, swVars>>

\* NotificationBell calls markAsRead(id) for an entry it shows as unread
MarkStart(id) ==
  /\ id \in UnreadIds(notifications)
  /\ npMarks[id] < MaxMarks
  /\ npMarks' = [npMarks EXCEPT ![id] = npMarks[id] + 1]
  /\ UNCHANGED <<notifications, unreadCount, npFetch, srvNotifs>>
  /\ UNCHANGED <<authVars, umVars, swVars>>

\* a PUT /notifications/id/read settles
MarkDone(id, ok) ==
  /\ npMarks[id] > 0
  /\ npMarks' = [npMarks EXCEPT ![id] = npMarks[id] - 1]
  /\ IF ok
       THEN /\ srvNotifs' = [srvNotifs EXCEPT ![id] = "read"]
            /\ notifications' = MapRead(notifications, id)
            /\ unreadCount' = IF unreadCount - 1 > 0 THEN unreadCount - 1 ELSE 0
       ELSE UNCHANGED <<srvNotifs, notifications, unreadCount>>
  /\ UNCHANGED npFetch
  /\ UNCHANGED <<authVars, umVars, swVars>>

\* markAllAsRead(), offered while unreadCount > 0
MarkAll ==
  /\ unreadCount > 0
  /\ \A id \in UnreadIds(notifications) : npMarks[id] < MaxMarks
  /\ notifications' = MapAllRead(notifications)
  /\ unreadCount' = 0
  /\ npMarks' = [id \in Ids |->
                   IF id \in UnreadIds(notifications) THEN npMarks[id] + 1
                   ELSE npMarks[id]]
  /\ UNCHANGED <<npFetch, srvNotifs>>
  /\ UNCHANGED <<authVars, umVars, swVars>>

NpInit == AuthStill /\ UmStill /\ SwStill /\ NpStill

NpNext ==
  \/ \E id \in Ids : NewNotification(id)
  \/ FetchStart
  \/ \E ok \in BOOLEAN : FetchDone(ok)
  \/ \E id \in Ids : MarkStart(id)
  \/ \E id \in Ids, ok \in BOOLEAN : MarkDone(id, ok)
  \/ MarkAll

NpSpec == NpInit /\ [][NpNext]_vars

TypeOK ==
  /\ variant \in {"inline", "helper"}
  /\ user \in 0..2
  /\ token \in 0..MaxTok
  /\ lsToken \in Undef..MaxTok
  /\ header \in Undef..MaxTok
  /\ \A t \in Tasks : lvl[t] \in 0..MaxNest /\ rc[t] \in 0..MaxCount

\* ------------------------------------------------------------------ claims
Guest ==
  /\ token = 0 /\ refreshToken = 0 /\ user = 0
  /\ lsToken = 0 /\ lsRefresh = 0

\* t's interceptor took a 401 of t's request and awaits the refresh it started
AwaitsRefresh(t) ==
  pc[t] = "call" /\ kind[t] = "protected" /\ lvl[t] = 1 /\ phase[t] = "orig"

\* C1: when two protected requests both got 401 before either refresh
\* completed, exactly one call to the refresh endpoint has been made for them.
C1_SingleRefreshCall ==
  (AwaitsRefresh("a") /\ AwaitsRefresh("b")) => rc["a"] + rc["b"] = 1

\* C2: a 401 answer to the POST /auth/token/refresh itself, received while a
\* refresh token is stored, starts no further refresh call.
C2_NoNestedRefresh ==
  [][\A t \in Tasks :
       (lvl[t] >= 1 /\ lsRefresh # 0 /\ Deliver(t, "e401"))
         => ~(lvl'[t] >= 1 /\ net'[t].st = "sent")]_vars

\* C3: the chain of one outbound request holds at most one refresh call and
\* at most two sends of the request itself (the original and one retry).
C3_OneShotRetry ==
  \A t \in Ops : rc[t] <= 1 /\ bc[t] <= 2

\* C4: initialize() always eventually sets loading to false.
C4_LoadingEnds == (loading = TRUE) ~> (loading = FALSE)

\* C5: started with an access token the backend rejects and a refresh token
\* it accepts, checkAuth ends after exactly one refresh call and exactly one
\* retried profile call, with user set to the profile and the tokens of the
\* refresh answer in memory, in storage and in the default header.
C5_RescueOnce ==
  (variant = "helper" /\ pc["init"] = "done" /\ storedRefreshToken # 0
     /\ initFirst = "e401" /\ initFails = 1)
    => /\ rc["init"] = 1
       /\ bc["init"] = 2
       /\ res["init"] = "ok"
       /\ user = 1
       /\ ~loading
       /\ issued = 2
       /\ token = issued /\ lsToken = issued /\ header = issued
       /\ lsRefresh \in {1, issued} /\ refreshToken = lsRefresh

C5_Witness ==
  /\ variant = "helper" /\ pc["init"] = "done" /\ storedRefreshToken # 0
  /\ initFirst = "e401" /\ initFails = 1
  /\ user = 1 /\ lsToken = 2 /\ lsRefresh = 2

\* C6: one run of initialize() (helper variant, the one whose checkAuth has
\* its own rescue) issues at most one call to the refresh endpoint, and
\* exactly one when the first profile fetch got 401 and a refresh token is
\* stored.  States with a refresh nested in a refresh (C2) are left aside.
C6_OneRefreshPerInit ==
  (variant = "helper" /\ lvl["init"] <= 1)
    => /\ rc["init"] <= 1
       /\ (pc["init"] = "done" /\ initFirst = "e401" /\ storedRefreshToken # 0)
            => rc["init"] = 1

\* C7: when the first profile fetch of initialize() got 401 and the rescue
\* failed (no refresh was possible, or a later call failed), initialize()
\* ends in Guest.
C7_FailedRescueEndsGuest ==
  (pc["init"] = "done" /\ initFirst = "e401" /\ (initFails >= 2 \/ rc["init"] = 0))
    => Guest

\* C8: every logout() eventually ends with Forced Logout done: tokens and
\* user null, both storage keys absent, default header detached (stated for
\* the helper variant, whose handleLogout detaches the header itself).
C8_LogoutEndsGuest ==
  \A t \in Ops :
    (variant = "helper" /\ kind[t] = "logout" /\ pc[t] = "call")
      ~> (kind[t] = "logout" /\ pc[t] = "done" /\ Guest /\ header = 0)

\* C9: access_token = null implies user = null (helper variant, which has no
\* page reload after handleLogout; states in which a refresh answer without
\* access_token has left "undefined" in storage, see C12, are left aside).
C9_NoTokenNoUser ==
  (variant = "helper" /\ token = 0 /\ lsToken # Undef) => user = 0

\* C10: while the operations in flight are requests whose refreshes overlap,
\* every completing refresh leaves a fresher access token in memory than the
\* one it replaces.
C10_NoRegress ==
  [][\A t \in Ops :
       (/\ \A u \in Ops : kind[u] \in ReqKinds
        /\ lvl[t] >= 1
        /\ Deliver(t, "ok")) => token' > token]_vars

\* C11: whenever an operation has completed, the access token and the
\* refresh token in memory equal the values stored under 'token' and
\* 'refresh_token' (absent key = null).
C11_MemoryEqualsStorage ==
  (\E t \in Tasks : pc[t] = "done")
    => (token = lsToken /\ refreshToken = lsRefresh)

\* C12: a call of refreshAccessToken() that fails (network error, 401, or a
\* 2xx answer without access_token) leaves the tokens in memory, the storage
\* keys and the default Authorization header as they were.  Stated for the
\* refresh of a request whose caller changes nothing on failure.
C12_RefreshFailureNoMutation ==
  [][\A t \in Ops :
       (/\ variant = "helper"
        /\ kind[t] \in ReqKinds
        /\ lvl[t] >= 1
        /\ \E o \in {"e401", "err", "bad"} : Deliver(t, o))
         => UNCHANGED <<token, refreshToken, lsToken, lsRefresh, header>>]_vars

\* C13: when a refresh call is answered with tokens, the access token of the
\* answer replaces the one in memory and in the default header (and, where
\* the refresh writes storage itself, the stored one); the refresh token is
\* replaced iff the answer carries one; and the request that got the 401 is
\* sent again with the new access token as its bearer.
C13_RefreshReplaces ==
  [][\A t \in Tasks :
       (lvl[t] >= 1 /\ net[t].st = "ok" /\ Deliver(t, "ok"))
         => /\ token' = net[t].acc
            /\ header' = net[t].acc
            /\ variant = "helper" => lsToken' = net[t].acc
            /\ IF net[t].ref # 0
                 THEN /\ refreshToken' = net[t].ref
                      /\ variant = "helper" => lsRefresh' = net[t].ref
                 ELSE /\ refreshToken' = refreshToken
                      /\ lsRefresh' = lsRefresh
            /\ lvl[t] = 1 => /\ lvl'[t] = 0
                             /\ net'[t].st = "sent"
                             /\ net'[t].cred = net[t].acc]_vars

\* a protected request got 401, the refresh answered {access_token A2} only,
\* and the request is in flight again with Bearer A2; R1 is still stored
C13_Witness ==
  /\ variant = "helper"
  /\ kind["a"] = "protected" /\ pc["a"] = "call"
  /\ phase["a"] = "retry" /\ lvl["a"] = 0
  /\ net["a"].st = "sent" /\ net["a"].cred = 2
  /\ token = 2 /\ lsToken = 2 /\ header = 2
  /\ refreshToken = 1 /\ lsRefresh = 1

\* C14: when a protected request gets 401 and the refresh yields null (no
\* refresh token is stored, or the refresh call fails), the interceptor
\* rejects the caller and does no Forced Logout: the tokens in memory and in
\* storage and the user are unchanged, and no redirect is started.
C14_NullRefreshNoLogout ==
  [][\A t \in Ops :
       (/\ kind[t] \in ReqKinds
        /\ \/ lvl[t] = 0 /\ phase[t] = "orig" /\ lsRefresh = 0 /\ Deliver(t, "e401")
           \/ lvl[t] = 1 /\ Deliver(t, "err"))
         => /\ UNCHANGED <<token, refreshToken, user, lsToken, lsRefresh, navPending>>
            /\ pc'[t] = "done" /\ res'[t] = "fail"]_vars

\* C15: a network failure or non-401 error answer to the first attempt of
\* an operation's own call (the first profile fetch of checkAuth included;
\* logout(), whose purpose is the Forced Logout, left aside) changes neither
\* the tokens in memory and storage nor the user nor the default header, and
\* starts no redirect.
C15_FailureNoMutation ==
  [][\A t \in Tasks :
       (/\ kind[t] # "logout"
        /\ lvl[t] = 0 /\ phase[t] = "orig" /\ pc[t] = "call"
        /\ Deliver(t, "err"))
         => UNCHANGED <<token, refreshToken, user, lsToken, lsRefresh, header,
                        navPending>>]_vars

\* C16: when login(credentials) returns success, the storage keys 'token'
\* and 'refresh_token' hold the access token and the refresh token of the
\* backend's login answer, user is the returned user and the result is a
\* success.
C16_LoginRoundTrip ==
  [][\A t \in Ops :
       (kind[t] = "login" /\ Deliver(t, "ok"))
         => /\ pc'[t] = "done" /\ res'[t] = "ok"
            /\ user' = 1
            /\ lsToken' = net[t].acc
            /\ lsRefresh' = net[t].ref]_vars

\* C17: a login whose POST /auth/login fails (401 included) changes neither
\* the tokens in memory and storage nor the user nor the default header,
\* sends nothing to the refresh endpoint, and returns a failure.
C17_FailedLoginNoEffect ==
  [][\A t \in Ops :
       (kind[t] = "login" /\ \E o \in {"e401", "err"} : Deliver(t, o))
         => /\ UNCHANGED <<token, refreshToken, user, lsToken, lsRefresh, header,
                           navPending>>
            /\ pc'[t] = "done" /\ res'[t] = "fail"
            /\ rc'[t] = 0 /\ net'[t] = NoNet]_vars

\* a login has failed while a refresh token was stored, and no refresh call
\* was made
C17_Witness ==
  /\ kind["a"] = "login" /\ pc["a"] = "done" /\ res["a"] = "fail"
  /\ rc["a"] = 0 /\ bc["a"] = 1
  /\ lsRefresh # 0

\* C18: started with no access token stored, with or without a stored
\* refresh token, checkAuth ends at once with loading = false and user =
\* null and has sent nothing.
C18_NoTokenNoCalls ==
  [][(lsToken = 0 /\ CheckAuthStart)
       => /\ loading' = FALSE
          /\ user' = 0
          /\ pc'["init"] = "done"
          /\ net'["init"] = NoNet
          /\ bc'["init"] = 0 /\ rc'["init"] = 0]_vars

\* checkAuth has ended without a call although a refresh token is stored
C18_Witness ==
  /\ pc["init"] = "done" /\ bc["init"] = 0 /\ rc["init"] = 0
  /\ ~loading /\ user = 0
  /\ lsToken = 0 /\ lsRefresh = 1

\* C19: when the backend accepts the stored access token (the first profile
\* fetch of checkAuth answers 2xx), checkAuth ends with loading = false and
\* user = the profile of the answer, after exactly one profile fetch and no
\* refresh call.
C19_ValidTokenOneFetch ==
  (pc["init"] = "done" /\ initFirst = "ok")
    => /\ ~loading
       /\ user = 1
       /\ res["init"] = "ok"
       /\ bc["init"] = 1 /\ rc["init"] = 0

\* checkAuth has ended on a 2xx answer to its first profile fetch, made with
\* the stored access token, while a refresh token was stored too
C19_Witness ==
  /\ pc["init"] = "done" /\ initFirst = "ok" /\ initFails = 0
  /\ token = 1 /\ lsToken = 1 /\ lsRefresh = 1
  /\ user = 1

\* C20: logout() called in Guest (user null, both tokens null in memory and
\* absent from storage) returns normally, sends no POST /auth/logout and
\* leaves Guest in place.
C20_LogoutIdempotent ==
  [][\A t \in Ops :
       (Guest /\ Logout(t))
         => /\ Guest'
            /\ pc'[t] = "done" /\ res'[t] = "ok"
            /\ net'[t] = NoNet /\ bc'[t] = 0]_vars

\* a logout() has returned without a call, in Guest
C20_Witness ==
  /\ kind["a"] = "logout" /\ pc["a"] = "done" /\ res["a"] = "ok"
  /\ bc["a"] = 0
  /\ Guest /\ header = 0

C22_RequestCarriesToken ==
  [][\A t \in Ops, k \in ReqKinds :
       (token # 0 /\ Request(t, k)) => net'[t].cred = token]_vars

\* C23: while loading is true ProtectedRoute and PublicRoute render the
\* loading screen, neither their children nor a redirect, and no operation
\* of a routed page is under way; ProtectedRoute renders its children only
\* when loading is false and user is non-null.
C23_NoGuardWhileLoading ==
  /\ loading => /\ ProtectedRoute = "LoadingScreen"
                /\ PublicRoute = "LoadingScreen"
                /\ \A t \in Ops : pc[t] = "idle"
  /\ ProtectedRoute = "children" => (~loading /\ user # 0)
  /\ PublicRoute = "children" => (~loading /\ user = 0)

\* checkAuth is waiting for its profile fetch and the guards show the
\* loading screen
C23_Witness ==
  /\ loading /\ pc["init"] = "call" /\ net["init"].st = "sent"
  /\ ProtectedRoute = "LoadingScreen" /\ PublicRoute = "LoadingScreen"

\* C24: register, forgotPassword, resetPassword, updateProfile and
\* changePassword never throw: when their own call settles they return a
\* success or a failure result, leave tokens, storage and default header as
\* they were, and change user only in updateProfile on success.
C24_HelpersFrame ==
  [][\A t \in Ops :
       (/\ kind[t] \in ReqKinds \cup {PublicKind}
        /\ lvl[t] = 0
        /\ \/ Deliver(t, "ok")
           \/ Deliver(t, "err")
           \/ phase[t] = "retry" /\ Deliver(t, "e401"))
         => /\ UNCHANGED <<token, refreshToken, lsToken, lsRefresh, header,
                           navPending>>
            /\ pc'[t] = "done" /\ res'[t] \in {"ok", "fail"}
            /\ user' # user => (kind[t] = "updateProfile" /\ res'[t] = "ok")]_vars

\* updateProfile has succeeded: user is the updated profile and the session
\* of the login is untouched
C24_Witness ==
  /\ kind["a"] = "updateProfile" /\ pc["a"] = "done" /\ res["a"] = "ok"
  /\ user = 2
  /\ token = 2 /\ refreshToken = 2 /\ lsToken = 2 /\ lsRefresh = 2

\* C25: when a request of NotificationProvider (fetchNotifications,
\* markAsRead: protected requests through the same axios instance) ends in
\* failure, a 401 whose refresh then fails included, no session teardown
\* happens: tokens in memory and storage and the user are as before and no
\* redirect is started.
C25_NotificationFailureSwallowed ==
  [][\A t \in Ops :
       (/\ kind[t] = "protected"
        /\ \E o \in {"e401", "err"} : Deliver(t, o)
        /\ pc'[t] = "done")
         => UNCHANGED <<token, refreshToken, user, lsToken, lsRefresh,
                        navPending>>]_vars

\* C26: hasPermission(x) returns false when user is null or has no
\* permissions, true when x is an element of user.permissions, and false
\* otherwise, for every user value and every permission name.
C26_HasPermission ==
  answer = (/\ ~asked.user.null
            /\ asked.user.hasPerms
            /\ asked.p \in {asked.user.permissions[i] :
                              i \in DOMAIN asked.user.permissions})

\* hasPermission('user_write') was called for a user whose second
\* permission is user_write and has returned true
C26_Witness ==
  /\ asked.p = "user_write"
  /\ asked.user.hasPerms
  /\ asked.user.permissions = <<"user_read", "user_write">>
  /\ answer = TRUE

C29_OnlyListedCached ==
  /\ \A u \in SwUrls : swCache[u] # 0 => IsListedAsset(u)
  /\ swResp.from = "cache" => IsListedAsset(swResp.url)

\* C30: whenever no request of NotificationProvider is in flight,
\* unreadCount equals the number of entries of notifications that are not
\* read; and unreadCount is never negative.
C30_UnreadCountMatches ==
  /\ unreadCount >= 0
  /\ (~npFetch /\ \A id \in Ids : npMarks[id] = 0)
       => unreadCount = Cardinality(Unread(notifications))

\* C28: once Forced Logout has left both storage keys absent, both tokens in
\* memory null and the default header detached, they stay so until a login
\* succeeds, also when a refresh started before the logout is answered with
\* new tokens afterwards.
C28_LogoutFinal ==
  [][(/\ token = 0 /\ refreshToken = 0
      /\ lsToken = 0 /\ lsRefresh = 0
      /\ header = 0
      /\ ~\E t \in Ops : kind[t] = "login" /\ Deliver(t, "ok")
      /\ ~\E t \in Tasks : Deliver(t, "bad"))
       => /\ token' = 0 /\ refreshToken' = 0
          /\ lsToken' = 0 /\ lsRefresh' = 0
          /\ header' = 0]_vars

====
